---- MODULE Spec2Model ----
(***************************************************************************)
(* Model of wsi/tile.py: the tile grid arithmetic (get_num_tiles,          *)
(* get_tile_indices) and the rendering pass of display_tile_summary.       *)
(* An image is represented by its shape <<rows, cols>>; a tile by the      *)
(* tuple <<start_r, end_r, start_c, end_c>>.  The tissue measurement, the  *)
(* font file and the PIL conversion are collaborators outside tile.py and  *)
(* are modelled as inputs / nondeterministic outcomes.                     *)
(***************************************************************************)
EXTENDS Integers, Sequences, FiniteSets

VARIABLES
  np_img,            \* shape <<rows, cols>> of the image
  row_tile_size,     \* argument row_tile_size of the three functions
  col_tile_size,     \* argument col_tile_size of the three functions
  font_ok,           \* whether ImageFont.truetype(font_path) can load the font
  pc,                \* position in the script / in display_tile_summary
  num_tiles,         \* outcome of the call get_num_tiles(np_img, ...)
  tile_indices,      \* outcome of the call get_tile_indices(np_img, ...)
  tiles,             \* argument tile_indices of display_tile_summary
  summary_img,       \* shape of the canvas, or None
  copied,            \* shape of the region of the canvas assigned from np_img
  count,             \* local count of display_tile_summary
  tissue_percentage, \* local tissue_percentage of display_tile_summary
  log,               \* tiles printed so far, in order
  rects,             \* rectangle pairs drawn so far, in order
  outline,           \* <<outer, inner>> outline colours of the last pair drawn
  labels,            \* labels drawn so far, in order
  shown,             \* summary.show() has been called
  error              \* exception that ended display_tile_summary, or "none"

vars == <<np_img, row_tile_size, col_tile_size, font_ok, pc, num_tiles,
          tile_indices, tiles, summary_img, copied, count, tissue_percentage,
          log, rects, outline, labels, shown, error>>

-----------------------------------------------------------------------------
(* Program constants *)

ROW_TILE_SIZE == 128
COL_TILE_SIZE == 128
TISSUE_THRESHOLD_PERCENT == 50

(* Bounds of the model *)

MaxSmall == 2   \* small tile sizes 1..MaxSmall, small image sides 0..MaxSmall+1
MaxMult == 2    \* large image sides lie around k * 128 for k in 1..MaxMult
MaxBands == 3   \* an image side spans at most MaxBands tiles

None == "None"

\* outcome of a call that has not been made yet
NotCalled == [err |-> "not called", val |-> << >>]

Abs(x) == IF x < 0 THEN -x ELSE x

Sides(nominal) ==
  (0 .. MaxSmall + 1) \cup
  { k * nominal + d : k \in 1 .. MaxMult, d \in {-1, 0, 1} }

TileSizes(nominal) ==
  {-2, -1, 0} \cup (1 .. MaxSmall) \cup {nominal - 1, nominal, nominal + 1}

\* the tissue percentages the measurement may return, around the boundaries
Percentages ==
  {0, 1, TISSUE_THRESHOLD_PERCENT - 1, TISSUE_THRESHOLD_PERCENT, 100}

-----------------------------------------------------------------------------
(* get_num_tiles *)

\* CeilDiv with the quotient rounded down: rows // row_tile_size
FloorDiv(a, b) ==
  IF b > 0 THEN a \div b ELSE -(a \div (-b))

\* math.ceil(a / b) for an integer a >= 0 and an integer b # 0
CeilDiv(a, b) ==
  IF b > 0
    THEN (IF a % b = 0 THEN a \div b ELSE (a \div b) + 1)
    ELSE -(a \div (-b))

get_num_tiles(shape, rts, cts) ==
  IF rts = 0 \/ cts = 0
    THEN [err |-> "ZeroDivisionError", val |-> << >>]
    ELSE [err |-> "none",
          val |-> <<CeilDiv(shape[1], rts), CeilDiv(shape[2], cts)>>]

-----------------------------------------------------------------------------
(* get_tile_indices *)

\* BandEnd without the clamp of the last band
BandEndUnclamped(k, n, size, side) == (k + 1) * size

\* BandEnd with the last band ending at the last index, not one past it
BandEndInclusive(k, n, size, side) ==
  IF k < n - 1 THEN (k + 1) * size ELSE side - 1

\* end of band k of n bands: the nominal end, the last band ends at the side
BandEnd(k, n, size, side) ==
  IF k < n - 1 THEN (k + 1) * size ELSE side

\* the inner loop: the tiles of row band r, for c in range(0, num_col_tiles)
RowOfTiles(r, shape, rts, cts, nrt, nct) ==
  [ i \in 1 .. (IF nct > 0 THEN nct ELSE 0) |->
      << r * rts, BandEnd(r, nrt, rts, shape[1]),
         (i - 1) * cts, BandEnd(i - 1, nct, cts, shape[2]) >> ]

\* the outer loop: for r in range(r, num_row_tiles), appending row by row
RECURSIVE AppendRows(_, _, _, _, _, _)
AppendRows(r, shape, rts, cts, nrt, nct) ==
  IF r >= nrt
    THEN << >>
    ELSE RowOfTiles(r, shape, rts, cts, nrt, nct)
           \o AppendRows(r + 1, shape, rts, cts, nrt, nct)

get_tile_indices(shape, rts, cts) ==
  LET nt == get_num_tiles(shape, rts, cts) IN
  IF nt.err # "none"
    THEN [err |-> nt.err, val |-> << >>]
    ELSE [err |-> "none",
          val |-> AppendRows(0, shape, rts, cts, nt.val[1], nt.val[2])]

-----------------------------------------------------------------------------
(* display_tile_summary: pure parts *)

\* CanvasShape with height and width exchanged
CanvasShapeSwapped(nrt, nct) == <<COL_TILE_SIZE * nct, ROW_TILE_SIZE * nrt>>

\* np.zeros([ROW_TILE_SIZE * num_row_tiles, COL_TILE_SIZE * num_col_tiles, ..])
CanvasShape(nrt, nct) == <<ROW_TILE_SIZE * nrt, COL_TILE_SIZE * nct>>

Min(a, b) == IF a < b THEN a ELSE b

\* shape of summary_img[0:rows, 0:cols]: a slice is clipped to the array
SliceShape(canvas, shape) ==
  <<Min(canvas[1], shape[1]), Min(canvas[2], shape[2])>>

\* NumPy assignment target[...] = value: value must broadcast to the target
Broadcasts(value, target) ==
  \A d \in 1 .. 2 : value[d] = target[d] \/ value[d] = 1

\* Classify with a strict first comparison
ClassifyStrict(p) ==
  IF p > TISSUE_THRESHOLD_PERCENT
    THEN "thresh_color"
    ELSE IF p > 0 /\ p < TISSUE_THRESHOLD_PERCENT
      THEN "below_thresh_color"
      ELSE "no_tissue_color"

\* which outline colour the if / elif / else chain selects
Classify(p) ==
  IF p >= TISSUE_THRESHOLD_PERCENT
    THEN "thresh_color"
    ELSE IF p > 0 /\ p < TISSUE_THRESHOLD_PERCENT
      THEN "below_thresh_color"
      ELSE "no_tissue_color"

\* the two rectangles drawn for tile t, as <<x0, y0, x1, y1>>
OuterRect(t) == <<t[3], t[1], t[4] - 1, t[2] - 1>>
InnerRect(t) == <<t[3] + 1, t[1] + 1, t[4] - 2, t[2] - 2>>

\* anchor <<x, y>> of the label of tile t
LabelAnchor(t) == <<t[3] + 2, t[1] + 2>>

-----------------------------------------------------------------------------
(* Initial states: an image, the tile sizes and the font's availability *)

Init ==
  /\ np_img \in Sides(ROW_TILE_SIZE) \X Sides(COL_TILE_SIZE)
  /\ row_tile_size \in TileSizes(ROW_TILE_SIZE)
  /\ col_tile_size \in TileSizes(COL_TILE_SIZE)
  /\ row_tile_size # 0 => np_img[1] <= MaxBands * Abs(row_tile_size)
  /\ col_tile_size # 0 => np_img[2] <= MaxBands * Abs(col_tile_size)
  /\ font_ok \in BOOLEAN
  /\ pc = "count"
  /\ num_tiles = NotCalled
  /\ tile_indices = NotCalled
  /\ tiles = << >>
  /\ summary_img = None
  /\ copied = None
  /\ count = 0
  /\ tissue_percentage = None
  /\ log = << >>
  /\ rects = << >>
  /\ outline = None
  /\ labels = << >>
  /\ shown = FALSE
  /\ error = "none"

renderVars == <<summary_img, copied, count, tissue_percentage, log, rects,
                outline, labels, shown, error>>
inputVars == <<np_img, row_tile_size, col_tile_size, font_ok>>

-----------------------------------------------------------------------------
(* Calls of the grid functions *)

CallGetNumTiles ==
  /\ pc = "count"
  /\ num_tiles' = get_num_tiles(np_img, row_tile_size, col_tile_size)
  /\ pc' = "index"
  /\ UNCHANGED <<inputVars, tile_indices, tiles, renderVars>>

CallGetTileIndices ==
  /\ pc = "index"
  /\ tile_indices' = get_tile_indices(np_img, row_tile_size, col_tile_size)
  /\ pc' = "call"
  /\ UNCHANGED <<inputVars, num_tiles, tiles, renderVars>>

-----------------------------------------------------------------------------
(* display_tile_summary, statement by statement *)

Raise(e) ==
  /\ error' = e
  /\ pc' = "done"

\* the call: the caller passes the computed tile list, or an empty list
DisplayCall ==
  /\ pc = "call"
  /\ \/ tile_indices.err = "none" /\ tiles' = tile_indices.val
     \/ tiles' = << >>
  /\ pc' = "canvas"
  /\ UNCHANGED <<inputVars, num_tiles, tile_indices, renderVars>>

\* lines 83-87: get_num_tiles, np.zeros, fill
DisplayCanvas ==
  /\ pc = "canvas"
  /\ LET nt == get_num_tiles(np_img, row_tile_size, col_tile_size) IN
       IF nt.err # "none"
         THEN Raise(nt.err) /\ UNCHANGED summary_img
         ELSE LET shape == CanvasShape(nt.val[1], nt.val[2]) IN
                IF shape[1] < 0 \/ shape[2] < 0
                  THEN Raise("ValueError") /\ UNCHANGED summary_img
                  ELSE /\ summary_img' = shape
                       /\ pc' = "copy"
                       /\ UNCHANGED error
  /\ UNCHANGED <<inputVars, num_tiles, tile_indices, tiles, copied, count,
                 tissue_percentage, log, rects, outline, labels, shown>>

\* line 88: summary_img[0:rows, 0:cols] = np_img
DisplayCopy ==
  /\ pc = "copy"
  /\ LET target == SliceShape(summary_img, np_img) IN
       IF Broadcasts(np_img, target)
         THEN /\ copied' = target
              /\ pc' = "to_pil"
              /\ UNCHANGED error
         ELSE Raise("ValueError") /\ UNCHANGED copied
  /\ UNCHANGED <<inputVars, num_tiles, tile_indices, tiles, summary_img, count,
                 tissue_percentage, log, rects, outline, labels, shown>>

\* lines 89-91: np_to_pil, ImageDraw.Draw, count = 0; the conversion of an
\* array without pixels is left to the imaging library, which may refuse it
DisplayToPil ==
  /\ pc = "to_pil"
  /\ \/ /\ count' = 0
        /\ pc' = "loop"
        /\ UNCHANGED error
     \/ /\ summary_img[1] = 0 \/ summary_img[2] = 0
        /\ Raise("ValueError")
        /\ UNCHANGED count
  /\ UNCHANGED <<inputVars, num_tiles, tile_indices, tiles, summary_img, copied,
                 tissue_percentage, log, rects, outline, labels, shown>>

\* lines 92-97: next tile, count += 1, tissue_percent, print
DisplayMeasure ==
  /\ pc = "loop"
  /\ count < Len(tiles)
  /\ count' = count + 1
  /\ tissue_percentage' \in Percentages
  /\ log' = Append(log, tiles[count + 1])
  /\ pc' = "rect"
  /\ UNCHANGED <<inputVars, num_tiles, tile_indices, tiles, summary_img, copied,
                 rects, outline, labels, shown, error>>

\* lines 98-106: the two rectangles in the colour of the tile's class
DisplayRectangles ==
  /\ pc = "rect"
  /\ rects' = Append(rects, <<OuterRect(tiles[count]), InnerRect(tiles[count])>>)
  /\ outline' = <<Classify(tissue_percentage), Classify(tissue_percentage)>>
  /\ pc' = "font"
  /\ UNCHANGED <<inputVars, num_tiles, tile_indices, tiles, summary_img, copied,
                 count, tissue_percentage, log, labels, shown, error>>

\* lines 108-109: label text, ImageFont.truetype
DisplayFont ==
  /\ pc = "font"
  /\ IF font_ok
       THEN pc' = "text" /\ UNCHANGED error
       ELSE Raise("OSError")
  /\ UNCHANGED <<inputVars, num_tiles, tile_indices, tiles, summary_img, copied,
                 count, tissue_percentage, log, rects, outline, labels, shown>>

\* DisplayText numbering the labels from 0
DisplayTextZeroBased ==
  /\ pc = "text"
  /\ labels' = Append(labels, [count |-> count - 1,
                               anchor |-> LabelAnchor(tiles[count])])
  /\ pc' = "loop"
  /\ UNCHANGED <<inputVars, num_tiles, tile_indices, tiles, summary_img, copied,
                 count, tissue_percentage, log, rects, outline, shown, error>>

\* line 110: draw.text
DisplayText ==
  /\ pc = "text"
  /\ labels' = Append(labels, [count |-> count,
                               anchor |-> LabelAnchor(tiles[count])])
  /\ pc' = "loop"
  /\ UNCHANGED <<inputVars, num_tiles, tile_indices, tiles, summary_img, copied,
                 count, tissue_percentage, log, rects, outline, shown, error>>

\* line 111: summary.show()
DisplayShow ==
  /\ pc = "loop"
  /\ count = Len(tiles)
  /\ shown' = TRUE
  /\ pc' = "done"
  /\ UNCHANGED <<inputVars, num_tiles, tile_indices, tiles, summary_img, copied,
                 count, tissue_percentage, log, rects, outline, labels, error>>

Next ==
  \/ CallGetNumTiles
  \/ CallGetTileIndices
  \/ DisplayCall
  \/ DisplayCanvas
  \/ DisplayCopy
  \/ DisplayToPil
  \/ DisplayMeasure
  \/ DisplayRectangles
  \/ DisplayFont
  \/ DisplayText
  \/ DisplayShow

Spec == Init /\ [][Next]_vars

-----------------------------------------------------------------------------
(* Properties *)

Rows == np_img[1]
Cols == np_img[2]

\* the preconditions the grid functions are documented for
ValidInputs ==
  /\ Rows >= 1
  /\ Cols >= 1
  /\ row_tile_size > 0
  /\ col_tile_size > 0

\* C1: for an image with at least one row and one column and positive tile
\* sizes, get_num_tiles returns the smallest n and m with
\* n * row_tile_size >= rows and m * col_tile_size >= cols (the ceilings).
C1_NumTilesIsCeiling ==
  (num_tiles.err # "not called" /\ ValidInputs) =>
    /\ num_tiles.err = "none"
    /\ num_tiles.val[1] * row_tile_size >= Rows
    /\ (num_tiles.val[1] - 1) * row_tile_size < Rows
    /\ num_tiles.val[2] * col_tile_size >= Cols
    /\ (num_tiles.val[2] - 1) * col_tile_size < Cols

C1_Witness ==
  /\ num_tiles.err # "not called"
  /\ ValidInputs
  /\ Rows % row_tile_size # 0
  /\ Cols % col_tile_size = 0
  /\ num_tiles.val[1] >= 3
  /\ num_tiles.val[2] >= 2

IsEmpty(t) == t[2] <= t[1] \/ t[4] <= t[3]

Area(t) == IF IsEmpty(t) THEN 0 ELSE (t[2] - t[1]) * (t[4] - t[3])

\* the half-open rectangles of t and u have no position in common
Disjoint(t, u) ==
  \/ IsEmpty(t)
  \/ IsEmpty(u)
  \/ t[2] <= u[1]
  \/ u[2] <= t[1]
  \/ t[4] <= u[3]
  \/ u[4] <= t[3]

\* every position of t lies in [0, Rows) x [0, Cols)
InsideImage(t) ==
  IsEmpty(t) \/ (t[1] >= 0 /\ t[2] <= Rows /\ t[3] >= 0 /\ t[4] <= Cols)

RECURSIVE SumAreas(_)
SumAreas(s) == IF s = << >> THEN 0 ELSE Area(Head(s)) + SumAreas(Tail(s))

\* C2: for valid inputs get_tile_indices returns num_row_tiles * num_col_tiles
\* tiles whose rectangles are pairwise disjoint, lie inside the image and
\* together cover it: disjoint rectangles inside the image whose areas add up
\* to rows * cols leave no pixel out.
C2_TilesPartitionImage ==
  (tile_indices.err # "not called" /\ ValidInputs) =>
    /\ tile_indices.err = "none"
    /\ Len(tile_indices.val) = num_tiles.val[1] * num_tiles.val[2]
    /\ \A i \in DOMAIN tile_indices.val : InsideImage(tile_indices.val[i])
    /\ \A i, j \in DOMAIN tile_indices.val :
         i # j => Disjoint(tile_indices.val[i], tile_indices.val[j])
    /\ SumAreas(tile_indices.val) = Rows * Cols

C2_Witness ==
  /\ tile_indices.err # "not called"
  /\ ValidInputs
  /\ Len(tile_indices.val) = 6
  /\ Rows % row_tile_size # 0
  /\ Cols % col_tile_size # 0

\* C3: for valid inputs every tile is between 1 and row_tile_size rows high,
\* ends inside the image, and is exactly row_tile_size high unless it is in
\* the last row band (the one that ends at the image's last row); the same
\* for columns.
C3_BandSizes ==
  (tile_indices.err # "not called" /\ ValidInputs) =>
    \A i \in DOMAIN tile_indices.val :
      LET t == tile_indices.val[i] IN
        /\ 1 <= t[2] - t[1]
        /\ t[2] - t[1] <= row_tile_size
        /\ t[2] <= Rows
        /\ t[2] # Rows => t[2] - t[1] = row_tile_size
        /\ 1 <= t[4] - t[3]
        /\ t[4] - t[3] <= col_tile_size
        /\ t[4] <= Cols
        /\ t[4] # Cols => t[4] - t[3] = col_tile_size

C3_Witness ==
  /\ tile_indices.err # "not called"
  /\ ValidInputs
  /\ \E i \in DOMAIN tile_indices.val :
       LET t == tile_indices.val[i] IN
         /\ t[2] = Rows
         /\ t[2] - t[1] < row_tile_size
         /\ t[1] > 0
         /\ t[4] # Cols

\* C4: the tile of row band r and column band c is at 0-based position
\* r * num_col_tiles + c of the list; display_tile_summary logs the tiles in
\* list order, numbers the labels 1, 2, 3, ... and finishes the rectangles
\* and the label of a tile before it measures the next one.
C4_RowMajorOrder ==
  /\ tile_indices.err = "none" =>
       \A r \in 0 .. num_tiles.val[1] - 1 : \A c \in 0 .. num_tiles.val[2] - 1 :
         LET k == r * num_tiles.val[2] + c + 1 IN
           /\ k \in DOMAIN tile_indices.val
           /\ tile_indices.val[k][1] = r * row_tile_size
           /\ tile_indices.val[k][3] = c * col_tile_size
  /\ count = Len(log)
  /\ Len(log) <= Len(tiles)
  /\ \A k \in DOMAIN log : log[k] = tiles[k]
  /\ Len(labels) <= Len(rects)
  /\ Len(rects) <= Len(log)
  /\ Len(log) <= Len(labels) + 1
  /\ pc = "rect" => Len(rects) = count - 1
  /\ \A k \in DOMAIN rects : rects[k] = <<OuterRect(tiles[k]), InnerRect(tiles[k])>>
  /\ \A k \in DOMAIN labels :
       /\ labels[k].count = k
       /\ labels[k].anchor = LabelAnchor(tiles[k])
       /\ (tile_indices.err = "none" /\ tiles = tile_indices.val) =>
            /\ log[k][1] = ((k - 1) \div num_tiles.val[2]) * row_tile_size
            /\ log[k][3] = ((k - 1) % num_tiles.val[2]) * col_tile_size

C4_Witness ==
  /\ pc = "done"
  /\ shown
  /\ num_tiles.val[1] >= 2
  /\ num_tiles.val[2] >= 3
  /\ Len(labels) = num_tiles.val[1] * num_tiles.val[2]

\* C5: once the rectangles of a tile are drawn, both have the same colour:
\* thresh_color iff p >= TISSUE_THRESHOLD_PERCENT, below_thresh_color iff
\* 0 < p < TISSUE_THRESHOLD_PERCENT, no_tissue_color iff p = 0.
C5_ClassificationPartition ==
  (outline # None /\ pc # "rect") =>
    LET p == tissue_percentage IN
      /\ outline[1] = outline[2]
      /\ outline[1] \in {"thresh_color", "below_thresh_color", "no_tissue_color"}
      /\ outline[1] = "thresh_color" <=> p >= TISSUE_THRESHOLD_PERCENT
      /\ outline[1] = "below_thresh_color" <=> (0 < p /\ p < TISSUE_THRESHOLD_PERCENT)
      /\ outline[1] = "no_tissue_color" <=> p = 0

C5_Witness ==
  /\ pc = "font"
  /\ tissue_percentage = TISSUE_THRESHOLD_PERCENT
  /\ outline = <<"thresh_color", "thresh_color">>

\* C6: for positive tile sizes the canvas has row_tile_size * num_row_tiles
\* rows and col_tile_size * num_col_tiles columns, with the tile sizes passed
\* to the call (stated for a non-empty image, where it already fails).
C6_CanvasFromArguments ==
  (summary_img # None /\ ValidInputs) =>
    summary_img = <<row_tile_size * num_tiles.val[1],
                    col_tile_size * num_tiles.val[2]>>

\* C7: when the image has more rows or more columns than the canvas, the call
\* fails at the copy: nothing is copied, logged, drawn or shown (stated for
\* a non-empty image, where it already fails).
C7_OversizedImageFails ==
  (/\ summary_img # None
   /\ Rows >= 1
   /\ Cols >= 1
   /\ (Rows > summary_img[1] \/ Cols > summary_img[2])) =>
    /\ copied = None
    /\ log = << >>
    /\ rects = << >>
    /\ labels = << >>
    /\ ~shown
    /\ pc = "copy" \/ (pc = "done" /\ error # "none")

\* C8: a call ends either complete (a log line for every tile, then the
\* canvas shown) or with an error before anything was logged, drawn or
\* shown; with a font that cannot be loaded the canvas is never shown
\* (stated for calls with valid arguments, where it already fails).
C8_AllOrNothing ==
  (pc = "done" /\ ValidInputs) =>
    /\ \/ error = "none" /\ shown /\ Len(log) = Len(tiles)
       \/ error # "none" /\ ~shown /\ log = << >> /\ rects = << >>
    /\ ~font_ok => (error # "none" /\ ~shown)

\* C9: get_num_tiles and get_tile_indices end in an error whenever a tile
\* size is zero or negative or the image has no rows or no columns.
C9_InvalidArgumentsRejected ==
  (row_tile_size <= 0 \/ col_tile_size <= 0 \/ Rows = 0 \/ Cols = 0) =>
    /\ num_tiles.err # "not called" => num_tiles.err # "none"
    /\ tile_indices.err # "not called" => tile_indices.err # "none"

\* the call the script makes: the module's tile sizes, a non-empty image and
\* the tile list of get_tile_indices for the same sizes
NominalCall ==
  /\ row_tile_size = ROW_TILE_SIZE
  /\ col_tile_size = COL_TILE_SIZE
  /\ Rows >= 1
  /\ Cols >= 1
  /\ pc \notin {"count", "index", "call"}
  /\ tiles = tile_indices.val

InsideCanvas(x, y) ==
  /\ 0 <= x
  /\ x < summary_img[2]
  /\ 0 <= y
  /\ y < summary_img[1]

\* C10: in the nominal call the canvas is at least as large as the image and
\* less than one tile larger, the copy of the image succeeds and is complete,
\* the outer rectangle of every tile and the label anchor of every tile at
\* least 3 pixels wide and high lie inside the canvas.
C10_NominalCanvasHoldsImage ==
  (NominalCall /\ pc # "canvas") =>
    /\ summary_img # None
    /\ summary_img[1] >= Rows
    /\ summary_img[1] - Rows < ROW_TILE_SIZE
    /\ summary_img[2] >= Cols
    /\ summary_img[2] - Cols < COL_TILE_SIZE
    /\ pc # "copy" => copied = np_img
    /\ error \in {"none", "OSError"}
    /\ \A k \in DOMAIN rects :
         /\ InsideCanvas(rects[k][1][1], rects[k][1][2])
         /\ InsideCanvas(rects[k][1][3], rects[k][1][4])
    /\ \A k \in DOMAIN labels :
         (tiles[k][2] - tiles[k][1] >= 3 /\ tiles[k][4] - tiles[k][3] >= 3) =>
           InsideCanvas(labels[k].anchor[1], labels[k].anchor[2])

C10_Witness ==
  /\ NominalCall
  /\ pc = "done"
  /\ shown
  /\ Rows % ROW_TILE_SIZE # 0
  /\ Cols % COL_TILE_SIZE # 0
  /\ Len(labels) >= 4

====
